---- MODULE Spec2Model ----
(***************************************************************************)
(* HIRED job board: the role-gated navigation of the React client.         *)
(*                                                                         *)
(* The state is the browser session of one principal: what the Clerk hook  *)
(* useUser() reports (isLoaded, isSignedIn, unsafeMetadata.role), the      *)
(* role stored on the Clerk profile, the router location, what the matched *)
(* route currently renders, and the profile updates started by             *)
(* handleRoleSelection that have not yet run their then/catch callback.    *)
(*                                                                         *)
(* Behind the pages: the saved_jobs, jobs and applications tables with the *)
(* client functions that write them, the administrative Express server     *)
(* with the identity provider it proxies, and the admin dashboard's user   *)
(* table.  Each part has its own specification over the same variables.    *)
(***************************************************************************)
EXTENDS Naturals, Sequences, FiniteSets, TLC

VARIABLES
    hasSession,    \* a Clerk session exists for this browser
    profileRole,   \* unsafeMetadata.role as stored on the Clerk profile
    isLoaded,      \* useUser().isLoaded
    isSignedIn,    \* useUser().isSignedIn
    role,          \* useUser().user?.unsafeMetadata?.role as the client sees it
    pathname,      \* useLocation().pathname
    search,        \* the query string of the location
    requiredRole,  \* the requiredRole prop of the matched route's guard
    view,          \* what the matched route element renders
    inflight,      \* user.update() calls whose callback has not run yet
    hops,          \* redirects followed since the last navigation by the user
    crashed,       \* the page was reloaded after an update succeeded and
                   \* before its then-callback navigated
    saved_jobs,    \* the saved_jobs table: rows per (user_id, job_id)
    saved0,        \* the saved_jobs table before any saveJob call
    calls,         \* the saveJob calls of each caller
    jobs,          \* the jobs table
    dreq,          \* the DELETE /api/delete-job requests
    gj,            \* the GET /api/get-jobs request
    clerk,         \* the users the identity provider holds
    creq,          \* the requests to the identity-provider proxy handlers
    sender,        \* who sent each request to the administrative server
    users,         \* the admin dashboard's users state
    searchEmail,   \* the admin dashboard's user search text
    applications,  \* the applications table
    ucall          \* the updateApplicationStatus call

\* The browser session of the principal.
browser == <<hasSession, profileRole, isLoaded, isSignedIn, role, pathname,
             search, requiredRole, view, inflight, hops, crashed>>
\* The saved_jobs table and its callers.
saving == <<saved_jobs, saved0, calls>>
\* The jobs table and the administrative handlers on it.
jobsAdmin == <<jobs, dreq, gj>>
\* The identity provider and the handlers that proxy it.
identity == <<clerk, creq>>
\* The admin dashboard and the senders of the requests it, or anyone, makes.
dashboard == <<sender, users, searchEmail>>
\* The applications table and the recruiter's status control.
hiring == <<applications, ucall>>
\* Everything outside the browser session.
backend == <<saved_jobs, saved0, calls, jobs, dreq, gj, clerk, creq,
             sender, users, searchEmail, applications, ucall>>

vars == <<hasSession, profileRole, isLoaded, isSignedIn, role, pathname,
          search, requiredRole, view, inflight, hops, crashed,
          saved_jobs, saved0, calls, jobs, dreq, gj, clerk, creq,
          sender, users, searchEmail, applications, ucall>>

\* Overlapping profile updates (clicks before an earlier update resolved).
MaxInflight == 2
\* Cap on the redirects followed in a row.
MaxHops == 4

\* unsafeMetadata.role: "unset" stands for undefined.
Roles == {"unset", "candidate", "recruiter", "admin"}
\* The onboarding page with a third button, for admin.
SelectableRoles_WithAdmin == {"candidate", "recruiter", "admin"}

\* The two values the assignment screen's buttons pass.
SelectableRoles == {"candidate", "recruiter"}
\* requiredRole prop: "none" stands for an omitted prop.
RequiredRoles == {"none", "admin"}

\* The paths of the route table.
Paths == {"/", "/onboarding", "/admin", "/jobs", "/post-job", "/my-jobs",
          "/saved-jobs", "/job/:id"}

\* The requiredRole each route passes to its guard.
RequiredRole(p) == IF p = "/admin" THEN "admin" ELSE "none"

SignInTarget == "/?sign-in=true"

\* The location a `to` string denotes.
ToLocation(to) ==
    IF to = SignInTarget
    THEN [pathname |-> "/", search |-> "?sign-in=true"]
    ELSE [pathname |-> to, search |-> ""]

Null == [kind |-> "null", to |-> ""]
Navigate(to) == [kind |-> "navigate", to |-> to]
Children == [kind |-> "children", to |-> ""]


(***************************************************************************)
(* The router guard.  Variants of the guard with one plausible slip each,  *)
(* used to show that the checked properties depend on the guard's rules.   *)
(***************************************************************************)

\* The no-role check placed before the admin-path check.
ProtectedRoute_NoRoleBeforeAdminPath(loaded, signedIn, r, required, path) ==
    IF ~loaded THEN Null
    ELSE IF ~signedIn THEN Navigate(SignInTarget)
    ELSE IF required # "none" /\ r # required THEN Navigate("/")
    ELSE IF r = "admin" /\ path # "/admin" THEN Navigate("/admin")
    ELSE IF r = "unset" /\ path # "/onboarding" THEN Navigate("/onboarding")
    ELSE IF r # "admin" /\ path = "/admin" THEN Navigate("/")
    ELSE Children

\* The redirect of admins to /admin left out.
ProtectedRoute_NoAdminRedirect(loaded, signedIn, r, required, path) ==
    IF ~loaded THEN Null
    ELSE IF ~signedIn THEN Navigate(SignInTarget)
    ELSE IF required # "none" /\ r # required THEN Navigate("/")
    ELSE IF r # "admin" /\ path = "/admin" THEN Navigate("/")
    ELSE IF r = "unset" /\ path # "/onboarding" THEN Navigate("/onboarding")
    ELSE Children

\* The no-role check placed first among the role rules.
ProtectedRoute_NoRoleFirst(loaded, signedIn, r, required, path) ==
    IF ~loaded THEN Null
    ELSE IF ~signedIn THEN Navigate(SignInTarget)
    ELSE IF r = "unset" /\ path # "/onboarding" THEN Navigate("/onboarding")
    ELSE IF required # "none" /\ r # required THEN Navigate("/")
    ELSE IF r = "admin" /\ path # "/admin" THEN Navigate("/admin")
    ELSE IF r # "admin" /\ path = "/admin" THEN Navigate("/")
    ELSE Children

\* The no-role rule sending the principal to the job listing.
ProtectedRoute_NoRoleToJobs(loaded, signedIn, r, required, path) ==
    IF ~loaded THEN Null
    ELSE IF ~signedIn THEN Navigate(SignInTarget)
    ELSE IF required # "none" /\ r # required THEN Navigate("/")
    ELSE IF r = "admin" /\ path # "/admin" THEN Navigate("/admin")
    ELSE IF r # "admin" /\ path = "/admin" THEN Navigate("/")
    ELSE IF r = "unset" /\ path # "/onboarding" THEN Navigate("/jobs")
    ELSE Children

\* The no-role rule left out.
ProtectedRoute_NoOnboardingRedirect(loaded, signedIn, r, required, path) ==
    IF ~loaded THEN Null
    ELSE IF ~signedIn THEN Navigate(SignInTarget)
    ELSE IF required # "none" /\ r # required THEN Navigate("/")
    ELSE IF r = "admin" /\ path # "/admin" THEN Navigate("/admin")
    ELSE IF r # "admin" /\ path = "/admin" THEN Navigate("/")
    ELSE Children

\* The no-role rule without its test of the role.
ProtectedRoute_AlwaysOnboarding(loaded, signedIn, r, required, path) ==
    IF ~loaded THEN Null
    ELSE IF ~signedIn THEN Navigate(SignInTarget)
    ELSE IF required # "none" /\ r # required THEN Navigate("/")
    ELSE IF r = "admin" /\ path # "/admin" THEN Navigate("/admin")
    ELSE IF r # "admin" /\ path = "/admin" THEN Navigate("/")
    ELSE IF path # "/onboarding" THEN Navigate("/onboarding")
    ELSE Children

\* The guard sends everyone away from /admin, admins included.
ProtectedRoute_AdminPageBounces(loaded, signedIn, r, required, path) ==
    IF ~loaded THEN Null
    ELSE IF ~signedIn THEN Navigate(SignInTarget)
    ELSE IF required # "none" /\ r # required THEN Navigate("/")
    ELSE IF r = "admin" /\ path # "/admin" THEN Navigate("/admin")
    ELSE IF path = "/admin" THEN Navigate("/")
    ELSE IF r = "unset" /\ path # "/onboarding" THEN Navigate("/onboarding")
    ELSE Children

\* ProtectedRoute({children, requiredRole}): what the guard returns.
ProtectedRoute(loaded, signedIn, r, required, path) ==
    IF ~loaded THEN Null
    ELSE IF ~signedIn THEN Navigate(SignInTarget)
    ELSE IF required # "none" /\ r # required THEN Navigate("/")
    ELSE IF r = "admin" /\ path # "/admin" THEN Navigate("/admin")
    ELSE IF r # "admin" /\ path = "/admin" THEN Navigate("/")
    ELSE IF r = "unset" /\ path # "/onboarding" THEN Navigate("/onboarding")
    ELSE Children

(***************************************************************************)
(* The pages that redirect on their own.                                   *)
(***************************************************************************)

\* The two landing destinations swapped.
navigateUser_Swapped(currRole) ==
    IF currRole = "recruiter" THEN "/jobs" ELSE "/post-job"

\* The landing destination chosen without looking at the role.
navigateUser_AlwaysJobs(currRole) == "/jobs"

\* navigateUser(currRole): the landing destination of a role.
navigateUser(currRole) ==
    IF currRole = "recruiter" THEN "/post-job" ELSE "/jobs"

\* The Onboarding page once mounted: its effect navigates away when the
\* user already has a role, otherwise the two buttons stay on screen.
Onboarding(loaded, r) ==
    IF r # "unset" THEN Navigate(navigateUser(r))
    ELSE IF ~loaded THEN Null
    ELSE Children

\* The job-posting page redirecting recruiters instead of the others.
PostJob_Inverted(loaded, r) ==
    IF ~loaded THEN Null
    ELSE IF r = "recruiter" THEN Navigate("/jobs")
    ELSE Children

\* The PostJob page once its companies have loaded.
PostJob(loaded, r) ==
    IF ~loaded THEN Null
    ELSE IF r # "recruiter" THEN Navigate("/jobs")
    ELSE Children

\* The page element a route wraps in its guard.
Element(path, loaded, r) ==
    CASE path = "/onboarding" -> Onboarding(loaded, r)
      [] path = "/post-job" -> PostJob(loaded, r)
      [] OTHER -> Children

\* What the matched route shows: the guard's answer, or, when the guard
\* lets the children through, the page's.  `by` tells which of the two
\* decided; a page that stays on screen has kind "page".
RenderRoute(loaded, signedIn, r, required, path) ==
    LET g == ProtectedRoute(loaded, signedIn, r, required, path)
        e == Element(path, loaded, r)
    IN  IF g.kind # "children"
        THEN [kind |-> g.kind, to |-> g.to, by |-> "guard"]
        ELSE IF e.kind = "children"
        THEN [kind |-> "page", to |-> "", by |-> "page"]
        ELSE [kind |-> e.kind, to |-> e.to, by |-> "page"]

\* A <Navigate> whose target is not the current location has yet to act.
RedirectPending ==
    /\ view.kind = "navigate"
    /\ ToLocation(view.to) # [pathname |-> pathname, search |-> search]

RemoveAt(s, i) == [j \in 1..(Len(s) - 1) |-> IF j < i THEN s[j] ELSE s[j + 1]]

(***************************************************************************)
(* The data behind the pages: the saved_jobs and jobs tables, the users of *)
(* the identity provider, and the calls and requests under way.            *)
(***************************************************************************)

\* saveJob calls one caller makes, one after the other.
MaxCalls == 2
\* Rows a (user_id, job_id) pair may have in the starting saved_jobs table.
MaxRows == 1

Users == {"u1", "u2"}
JobIds == {"j1", "j2"}
\* saveData: the (user_id, job_id) a saveJob call is about.
Pairs == [user_id : Users, job_id : JobIds]
\* The components (job cards) that call saveJob.
Callers == {"a", "b"}

NoPair == [user_id |-> "", job_id |-> ""]
NoResult == [outcome |-> "none", data |-> <<>>]

\* A caller that has not called yet.
IdleCall ==
    [pc |-> "idle", saveData |-> NoPair, existingSaves |-> 0,
     error |-> "none", ret |-> NoResult, n |-> 0, ok |-> 0]

SaveIdle ==
    /\ saved_jobs = [p \in Pairs |-> 0]
    /\ saved0 = saved_jobs
    /\ calls = [c \in Callers |-> IdleCall]

\* The rows the jobs table may hold: id is the primary key, recruiter_id the
\* identity-provider id of the poster.
AllJobs ==
    { [id |-> "j1", recruiter_id |-> "u1", created_at |-> 2],
      [id |-> "j2", recruiter_id |-> "u2", created_at |-> 3],
      [id |-> "j3", recruiter_id |-> "u1", created_at |-> 1] }
JobKeys == { j.id : j \in AllJobs }
NoJob == [id |-> "", recruiter_id |-> "", created_at |-> 0]

\* The users the identity provider may hold. A user may lack a first name
\* or an e-mail address.
AllClerkUsers ==
    { [id |-> "u1", first_name |-> "Ada", email_addresses |-> <<"ada@hired.test">>,
       banned |-> FALSE],
      [id |-> "u2", first_name |-> "", email_addresses |-> <<>>,
       banned |-> FALSE],
      [id |-> "u3", first_name |-> "Cy", email_addresses |-> <<"cy@hired.test">>,
       banned |-> FALSE] }

\* HTTP requests under way at the server, per endpoint.
Requests == {"r1", "r2"}

\* A DELETE /api/delete-job request that has not arrived yet.
IdleDelete ==
    [pc |-> "idle", jobId |-> "", existingJob |-> NoJob,
     fetchError |-> "none", error |-> "none",
     status |-> 0, message |-> "", deletedJob |-> NoJob, rowsAffected |-> 0]

\* A GET /api/get-jobs request that has not arrived yet.
IdleGetJobs ==
    [pc |-> "idle", jobs |-> <<>>, lookups |-> <<>>, results |-> <<>>,
     settled |-> <<>>, error |-> "none", status |-> 0, body |-> <<>>]

\* A request to an identity endpoint that has not arrived yet.
IdleClerkRequest ==
    [pc |-> "idle", op |-> "none", userId |-> "", fetched |-> <<>>,
     upstream |-> "none", status |-> 0,
     body |-> [kind |-> "none", users |-> {}]]

JobsIdle ==
    /\ jobs = {}
    /\ dreq = [r \in Requests |-> IdleDelete]
    /\ gj = IdleGetJobs

IdentityIdle ==
    /\ clerk = {}
    /\ creq = [r \in Requests |-> IdleClerkRequest]

\* A request nobody signed in has sent.
Anonymous == [signedIn |-> FALSE, role |-> "unset"]

DashboardIdle ==
    /\ sender = [r \in Requests |-> Anonymous]
    /\ users = {}
    /\ searchEmail = <<>>

\* An updateApplicationStatus call that has not been made yet.
IdleUpdate ==
    [pc |-> "idle", job_id |-> "", status |-> "", error |-> "none",
     ret |-> "none", data |-> {}]

HiringIdle ==
    /\ applications = {}
    /\ ucall = IdleUpdate

BackendIdle ==
    SaveIdle /\ JobsIdle /\ IdentityIdle /\ DashboardIdle /\ HiringIdle

\* The browser session before anything has run, nobody signed in.
BrowserIdle ==
    /\ hasSession = FALSE
    /\ profileRole = "unset"
    /\ isLoaded = FALSE
    /\ isSignedIn = FALSE
    /\ role = "unset"
    /\ pathname = "/"
    /\ search = ""
    /\ requiredRole = "none"
    /\ view = [kind |-> "null", to |-> "", by |-> "guard"]
    /\ inflight = <<>>
    /\ hops = 0
    /\ crashed = FALSE

(***************************************************************************)
(* The browser session.                                                    *)
(***************************************************************************)

Init ==
    /\ BackendIdle
    /\ hasSession \in BOOLEAN
    /\ profileRole \in (IF hasSession THEN Roles ELSE {"unset"})
    /\ isLoaded = FALSE
    /\ isSignedIn = FALSE
    /\ role = "unset"
    /\ pathname \in Paths
    /\ search = ""
    /\ requiredRole = RequiredRole(pathname)
    /\ view = RenderRoute(FALSE, FALSE, "unset", requiredRole, pathname)
    /\ inflight = <<>>
    /\ hops = 0
    /\ crashed = FALSE

\* Clerk finishes loading the session: useUser() now reports the user, and
\* the mounted guard renders again.
Load ==
    /\ UNCHANGED backend
    /\ ~isLoaded
    /\ isLoaded' = TRUE
    /\ isSignedIn' = hasSession
    /\ role' = IF hasSession THEN profileRole ELSE "unset"
    /\ view' = RenderRoute(TRUE, isSignedIn', role', requiredRole, pathname)
    /\ UNCHANGED <<hasSession, profileRole, pathname, search, requiredRole,
                   inflight, hops, crashed>>

\* The user follows a link to route p: the router matches the route and
\* renders its element, guard first.
Visit(p) ==
    /\ UNCHANGED backend
    /\ ~RedirectPending
    /\ pathname' = p
    /\ search' = ""
    /\ requiredRole' = RequiredRole(p)
    /\ view' = RenderRoute(isLoaded, isSignedIn, role, requiredRole', p)
    /\ hops' = 0
    /\ crashed' = FALSE
    /\ UNCHANGED <<hasSession, profileRole, isLoaded, isSignedIn, role, inflight>>

\* The effect of a rendered <Navigate>, or the Onboarding effect's
\* navigate(): the location changes and the matched route renders.
FollowRedirect ==
    /\ UNCHANGED backend
    /\ RedirectPending
    /\ hops < MaxHops
    /\ LET loc == ToLocation(view.to)
       IN  /\ pathname' = loc.pathname
           /\ search' = loc.search
           /\ requiredRole' = RequiredRole(loc.pathname)
           /\ view' = RenderRoute(isLoaded, isSignedIn, role, requiredRole',
                                  loc.pathname)
    /\ hops' = hops + 1
    /\ UNCHANGED <<hasSession, profileRole, isLoaded, isSignedIn, role,
                   inflight, crashed>>

\* handleRoleSelection(r) up to its await: a button of the Onboarding page is
\* clicked and user.update({unsafeMetadata: {role}}) is sent.  Nothing
\* disables the buttons while an update is under way.
handleRoleSelection(r) ==
    /\ UNCHANGED backend
    /\ ~RedirectPending
    /\ view.kind = "page"
    /\ pathname = "/onboarding"
    /\ Len(inflight) < MaxInflight
    /\ inflight' = Append(inflight, [role |-> r, phase |-> "sent"])
    /\ crashed' = FALSE
    /\ UNCHANGED <<hasSession, profileRole, isLoaded, isSignedIn, role,
                   pathname, search, requiredRole, view, hops>>

\* Clerk applies update i to the profile; the response is on its way.
UpdateApplied(i) ==
    /\ UNCHANGED backend
    /\ i \in DOMAIN inflight
    /\ inflight[i].phase = "sent"
    /\ profileRole' = inflight[i].role
    /\ inflight' = [inflight EXCEPT ![i].phase = "committed"]
    /\ UNCHANGED <<hasSession, isLoaded, isSignedIn, role, pathname, search,
                   requiredRole, view, hops, crashed>>

\* Update i fails (the request is rejected); the profile is not written.
UpdateFailed(i) ==
    /\ UNCHANGED backend
    /\ i \in DOMAIN inflight
    /\ inflight[i].phase = "sent"
    /\ inflight' = [inflight EXCEPT ![i].phase = "rejected"]
    /\ UNCHANGED <<hasSession, profileRole, isLoaded, isSignedIn, role,
                   pathname, search, requiredRole, view, hops, crashed>>

\* The then-callback without its call of navigateUser.
UpdateThen_NoNavigate(i) ==
    /\ UNCHANGED backend
    /\ ~RedirectPending
    /\ i \in DOMAIN inflight
    /\ inflight[i].phase = "committed"
    /\ role' = inflight[i].role
    /\ view' = RenderRoute(isLoaded, isSignedIn, role', requiredRole, pathname)
    /\ inflight' = RemoveAt(inflight, i)
    /\ hops' = 0
    /\ UNCHANGED <<hasSession, profileRole, isLoaded, isSignedIn, crashed,
                   pathname, search, requiredRole>>

\* The then-callback of update i: the user object carries the role of the
\* response, and navigateUser(role) changes the location.
UpdateThen(i) ==
    /\ UNCHANGED backend
    /\ ~RedirectPending
    /\ i \in DOMAIN inflight
    /\ inflight[i].phase = "committed"
    /\ role' = inflight[i].role
    /\ pathname' = navigateUser(inflight[i].role)
    /\ search' = ""
    /\ requiredRole' = RequiredRole(pathname')
    /\ view' = RenderRoute(isLoaded, isSignedIn, role', requiredRole', pathname')
    /\ inflight' = RemoveAt(inflight, i)
    /\ hops' = 0
    /\ UNCHANGED <<hasSession, profileRole, isLoaded, isSignedIn, crashed>>

\* The catch-callback of update i: the error is logged, nothing else.
UpdateCatch(i) ==
    /\ UNCHANGED backend
    /\ ~RedirectPending
    /\ i \in DOMAIN inflight
    /\ inflight[i].phase = "rejected"
    /\ inflight' = RemoveAt(inflight, i)
    /\ UNCHANGED <<hasSession, profileRole, isLoaded, isSignedIn, role,
                   pathname, search, requiredRole, view, hops, crashed>>

\* The page is reloaded, or closed and opened again, at route p: every
\* pending callback is lost and Clerk loads the session anew.
Reload(p) ==
    /\ UNCHANGED backend
    /\ crashed' = \/ \E i \in DOMAIN inflight : inflight[i].phase = "committed"
                  \/ (crashed /\ ~isLoaded)
    /\ isLoaded' = FALSE
    /\ isSignedIn' = FALSE
    /\ role' = "unset"
    /\ pathname' = p
    /\ search' = ""
    /\ requiredRole' = RequiredRole(p)
    /\ view' = RenderRoute(FALSE, FALSE, "unset", requiredRole', p)
    /\ inflight' = <<>>
    /\ hops' = 0
    /\ UNCHANGED <<hasSession, profileRole>>

Next ==
    \/ Load
    \/ \E p \in Paths : Visit(p)
    \/ FollowRedirect
    \/ \E r \in SelectableRoles : handleRoleSelection(r)
    \/ \E i \in 1..MaxInflight : UpdateApplied(i)
    \/ \E i \in 1..MaxInflight : UpdateFailed(i)
    \/ \E i \in 1..MaxInflight : UpdateThen(i)
    \/ \E i \in 1..MaxInflight : UpdateCatch(i)
    \/ \E p \in Paths : Reload(p)

Spec == Init /\ [][Next]_vars

\* The browser session with its redirects carried out: a rendered <Navigate>
\* and the Onboarding effect's navigate() run as soon as React commits them.
SpecConverge == Init /\ [][Next]_vars /\ WF_vars(FollowRedirect)

(***************************************************************************)
(* The guard alone, over every combination of its inputs.                  *)
(***************************************************************************)

Pending == [kind |-> "pending", to |-> "", by |-> "guard"]

InitGuard ==
    /\ BackendIdle
    /\ isLoaded \in BOOLEAN
    /\ isSignedIn \in BOOLEAN
    /\ role \in Roles
    /\ requiredRole \in RequiredRoles
    /\ pathname \in Paths
    /\ search = ""
    /\ hasSession = isSignedIn
    /\ profileRole = role
    /\ view = Pending
    /\ inflight = <<>>
    /\ hops = 0
    /\ crashed = FALSE

\* The guard is rendered on the inputs of the state.
GuardEval ==
    /\ UNCHANGED backend
    /\ view = Pending
    /\ LET g == ProtectedRoute(isLoaded, isSignedIn, role, requiredRole, pathname)
       IN  view' = [kind |-> g.kind, to |-> g.to, by |-> "guard"]
    /\ UNCHANGED <<hasSession, profileRole, isLoaded, isSignedIn, role,
                   pathname, search, requiredRole, inflight, hops, crashed>>

NextGuard == GuardEval

SpecGuard == InitGuard /\ [][NextGuard]_vars

TypeOK ==
    /\ hasSession \in BOOLEAN
    /\ profileRole \in Roles
    /\ isLoaded \in BOOLEAN
    /\ isSignedIn \in BOOLEAN
    /\ role \in Roles
    /\ pathname \in Paths
    /\ search \in {"", "?sign-in=true"}
    /\ requiredRole \in RequiredRoles
    /\ view.kind \in {"null", "navigate", "page", "children", "pending"}
    /\ view.by \in {"guard", "page"}
    /\ Len(inflight) <= MaxInflight
    /\ \A i \in DOMAIN inflight :
          /\ inflight[i].role \in SelectableRoles
          /\ inflight[i].phase \in {"sent", "committed", "rejected"}
    /\ hops \in 0..MaxHops
    /\ crashed \in BOOLEAN

(***************************************************************************)
(* The scenario of a new principal: signed in, no role, asking for /jobs.  *)
(***************************************************************************)

InitE2E ==
    /\ Init
    /\ hasSession
    /\ profileRole = "unset"
    /\ pathname = "/jobs"

SpecE2E == InitE2E /\ [][Next]_vars

(***************************************************************************)
(* saveJob: the save/unsave toggle of a job card.  A call is two database  *)
(* round trips, the select and then the delete or the insert; calls of     *)
(* different callers interleave between the two.                           *)
(***************************************************************************)

\* What a database call can come back with.
DbOutcomes == {"ok", "error"}

Returned(data) == [outcome |-> "returned", data |-> data]
Thrown == [outcome |-> "thrown", data |-> <<>>]

InitSave ==
    /\ BrowserIdle
    /\ JobsIdle
    /\ IdentityIdle
    /\ DashboardIdle
    /\ HiringIdle
    /\ saved_jobs \in [Pairs -> 0..MaxRows]
    /\ saved0 = saved_jobs
    /\ calls = [c \in Callers |-> IdleCall]

\* saveJob up to its first await: the select of the rows of
\* (saveData.user_id, saveData.job_id).  A checkError is thrown.
saveJobCheck(c, sd, db) ==
    /\ calls[c].pc = "idle"
    /\ calls[c].n < MaxCalls
    /\ calls[c].n > 0 => sd = calls[c].saveData
    /\ calls' = [calls EXCEPT ![c] =
          IF db = "error"
          THEN [@ EXCEPT !.saveData = sd, !.existingSaves = 0,
                         !.error = "checkError", !.ret = Thrown,
                         !.n = @ + 1]
          ELSE [@ EXCEPT !.pc = "checked", !.saveData = sd,
                         !.existingSaves = saved_jobs[sd],
                         !.error = "none", !.ret = NoResult]]
    /\ UNCHANGED <<saved_jobs, saved0>>
    /\ UNCHANGED <<browser, jobsAdmin, identity, dashboard, hiring>>

\* The insert made only when the pair still has no row.
saveJobToggle_InsertIfAbsent(c, db) ==
    /\ calls[c].pc = "checked"
    /\ LET sd == calls[c].saveData
           found == calls[c].existingSaves > 0
       IN  /\ saved_jobs' =
                 IF db = "error" THEN saved_jobs
                 ELSE IF found THEN [saved_jobs EXCEPT ![sd] = 0]
                 ELSE [saved_jobs EXCEPT ![sd] = IF @ = 0 THEN 1 ELSE @]
           /\ calls' = [calls EXCEPT ![c] =
                 [@ EXCEPT !.pc = "idle",
                           !.existingSaves = 0,
                           !.error = IF db = "ok" THEN "none"
                                     ELSE IF found THEN "deleteError"
                                     ELSE "insertError",
                           !.ret = IF db = "error" THEN Thrown
                                   ELSE IF found THEN Returned(<<>>)
                                   ELSE Returned(<<sd>>),
                           !.n = @ + 1,
                           !.ok = IF db = "ok" THEN @ + 1 ELSE @]]
    /\ UNCHANGED saved0
    /\ UNCHANGED <<browser, jobsAdmin, identity, dashboard, hiring>>

\* The delete matching the job only, whoever saved it.
saveJobToggle_DeleteByJobOnly(c, db) ==
    /\ calls[c].pc = "checked"
    /\ LET sd == calls[c].saveData
           found == calls[c].existingSaves > 0
       IN  /\ saved_jobs' =
                 IF db = "error" THEN saved_jobs
                 ELSE IF found
                 THEN [p \in Pairs |->
                          IF p.job_id = sd.job_id THEN 0 ELSE saved_jobs[p]]
                 ELSE [saved_jobs EXCEPT ![sd] = @ + 1]
           /\ calls' = [calls EXCEPT ![c] =
                 [@ EXCEPT !.pc = "idle",
                           !.existingSaves = 0,
                           !.error = IF db = "ok" THEN "none"
                                     ELSE IF found THEN "deleteError"
                                     ELSE "insertError",
                           !.ret = IF db = "error" THEN Thrown
                                   ELSE IF found THEN Returned(<<>>)
                                   ELSE Returned(<<sd>>),
                           !.n = @ + 1,
                           !.ok = IF db = "ok" THEN @ + 1 ELSE @]]
    /\ UNCHANGED saved0
    /\ UNCHANGED <<browser, jobsAdmin, identity, dashboard, hiring>>

\* A deleteError logged and not thrown.
saveJobToggle_DeleteErrorSwallowed(c, db) ==
    /\ calls[c].pc = "checked"
    /\ LET sd == calls[c].saveData
           found == calls[c].existingSaves > 0
       IN  /\ saved_jobs' =
                 IF db = "error" THEN saved_jobs
                 ELSE IF found THEN [saved_jobs EXCEPT ![sd] = 0]
                 ELSE [saved_jobs EXCEPT ![sd] = @ + 1]
           /\ calls' = [calls EXCEPT ![c] =
                 [@ EXCEPT !.pc = "idle",
                           !.existingSaves = 0,
                           !.error = IF db = "ok" THEN "none"
                                     ELSE IF found THEN "deleteError"
                                     ELSE "insertError",
                           !.ret = IF found THEN Returned(<<>>)
                                   ELSE IF db = "error" THEN Thrown
                                   ELSE Returned(<<sd>>),
                           !.n = @ + 1,
                           !.ok = IF db = "ok" THEN @ + 1 ELSE @]]
    /\ UNCHANGED saved0
    /\ UNCHANGED <<browser, jobsAdmin, identity, dashboard, hiring>>

\* saveJob after the select: rows were found, so every row of the pair is
\* deleted and [] returned; none was found, so one row is inserted and
\* returned.  A deleteError or insertError is thrown.
saveJobToggle(c, db) ==
    /\ calls[c].pc = "checked"
    /\ LET sd == calls[c].saveData
           found == calls[c].existingSaves > 0
       IN  /\ saved_jobs' =
                 IF db = "error" THEN saved_jobs
                 ELSE IF found THEN [saved_jobs EXCEPT ![sd] = 0]
                 ELSE [saved_jobs EXCEPT ![sd] = @ + 1]
           /\ calls' = [calls EXCEPT ![c] =
                 [@ EXCEPT !.pc = "idle",
                           !.existingSaves = 0,
                           !.error = IF db = "ok" THEN "none"
                                     ELSE IF found THEN "deleteError"
                                     ELSE "insertError",
                           !.ret = IF db = "error" THEN Thrown
                                   ELSE IF found THEN Returned(<<>>)
                                   ELSE Returned(<<sd>>),
                           !.n = @ + 1,
                           !.ok = IF db = "ok" THEN @ + 1 ELSE @]]
    /\ UNCHANGED saved0
    /\ UNCHANGED <<browser, jobsAdmin, identity, dashboard, hiring>>

NextSave ==
    \/ \E c \in Callers, sd \in Pairs, db \in DbOutcomes : saveJobCheck(c, sd, db)
    \/ \E c \in Callers, db \in DbOutcomes : saveJobToggle(c, db)

SpecSave == InitSave /\ [][NextSave]_vars

(***************************************************************************)
(* DELETE /api/delete-job/:jobId.  The handler awaits twice: the existence *)
(* read (.select("*").eq("id", jobId).single()) and the delete             *)
(* (.delete().eq("id", jobId).select()); other requests run in between.    *)
(* The database client answers a call with data, with an error object, or  *)
(* the awaited call rejects.                                               *)
(***************************************************************************)

DbAnswers == {"ok", "error", "throw"}

\* The rows of the jobs table with this id.
RowsWithId(id) == { j \in jobs : j.id = id }

InitDeleteJob ==
    /\ BrowserIdle
    /\ SaveIdle
    /\ DashboardIdle
    /\ HiringIdle
    /\ IdentityIdle
    /\ jobs \in SUBSET AllJobs
    /\ dreq = [r \in Requests |-> IdleDelete]
    /\ gj = IdleGetJobs

\* .single() answers an error unless exactly one row matches.
deleteJobFetch(r, id, db) ==
    /\ dreq[r].pc = "idle"
    /\ LET rows == RowsWithId(id)
           found == db = "ok" /\ Cardinality(rows) = 1
       IN  dreq' = [dreq EXCEPT ![r] =
              IF db = "throw"
              THEN [@ EXCEPT !.pc = "done", !.jobId = id, !.fetchError = "threw",
                             !.status = 500,
                             !.message = "Server error deleting job"]
              ELSE IF found
              THEN [@ EXCEPT !.pc = "fetched", !.jobId = id,
                             !.existingJob = CHOOSE j \in rows : TRUE]
              ELSE [@ EXCEPT !.pc = "done", !.jobId = id,
                             !.fetchError = IF db = "error" THEN "failure"
                                            ELSE "no rows",
                             !.status = 404, !.message = "Job not found"]]
    /\ UNCHANGED <<jobs, gj>>
    /\ UNCHANGED <<browser, saving, identity, dashboard, hiring>>

\* The delete removes every row but the first it matches.
deleteJobDelete_KeepsRow(r, db) ==
    /\ dreq[r].pc = "fetched"
    /\ LET data == IF db = "ok" THEN RowsWithId(dreq[r].jobId) ELSE {}
       IN  /\ jobs' = jobs
           /\ dreq' = [dreq EXCEPT ![r] =
                 IF db = "throw"
                 THEN [@ EXCEPT !.pc = "done", !.error = "threw", !.status = 500,
                                !.message = "Server error deleting job"]
                 ELSE IF db = "error"
                 THEN [@ EXCEPT !.pc = "done", !.error = "failure",
                                !.status = 500,
                                !.message = "Failed to delete job"]
                 ELSE IF data = {}
                 THEN [@ EXCEPT !.pc = "done", !.status = 500,
                                !.message = "Job deletion failed - no rows affected"]
                 ELSE [@ EXCEPT !.pc = "done", !.status = 200,
                                !.message = "Job deleted successfully",
                                !.deletedJob = CHOOSE j \in data : TRUE,
                                !.rowsAffected = Cardinality(data)]]
    /\ UNCHANGED gj
    /\ UNCHANGED <<browser, saving, identity, dashboard, hiring>>

\* The delete without the check of the rows it affected.
deleteJobDelete_NoRowCheck(r, db) ==
    /\ dreq[r].pc = "fetched"
    /\ LET data == IF db = "ok" THEN RowsWithId(dreq[r].jobId) ELSE {}
       IN  /\ jobs' = jobs \ data
           /\ dreq' = [dreq EXCEPT ![r] =
                 IF db = "throw"
                 THEN [@ EXCEPT !.pc = "done", !.error = "threw", !.status = 500,
                                !.message = "Server error deleting job"]
                 ELSE IF db = "error"
                 THEN [@ EXCEPT !.pc = "done", !.error = "failure",
                                !.status = 500,
                                !.message = "Failed to delete job"]
                 ELSE [@ EXCEPT !.pc = "done", !.status = 200,
                                !.message = "Job deleted successfully",
                                !.deletedJob = IF data = {} THEN NoJob
                                               ELSE CHOOSE j \in data : TRUE,
                                !.rowsAffected = Cardinality(data)]]
    /\ UNCHANGED gj
    /\ UNCHANGED <<browser, saving, identity, dashboard, hiring>>

deleteJobDelete(r, db) ==
    /\ dreq[r].pc = "fetched"
    /\ LET data == IF db = "ok" THEN RowsWithId(dreq[r].jobId) ELSE {}
       IN  /\ jobs' = jobs \ data
           /\ dreq' = [dreq EXCEPT ![r] =
                 IF db = "throw"
                 THEN [@ EXCEPT !.pc = "done", !.error = "threw", !.status = 500,
                                !.message = "Server error deleting job"]
                 ELSE IF db = "error"
                 THEN [@ EXCEPT !.pc = "done", !.error = "failure",
                                !.status = 500,
                                !.message = "Failed to delete job"]
                 ELSE IF data = {}
                 THEN [@ EXCEPT !.pc = "done", !.status = 500,
                                !.message = "Job deletion failed - no rows affected"]
                 ELSE [@ EXCEPT !.pc = "done", !.status = 200,
                                !.message = "Job deleted successfully",
                                !.deletedJob = CHOOSE j \in data : TRUE,
                                !.rowsAffected = Cardinality(data)]]
    /\ UNCHANGED gj
    /\ UNCHANGED <<browser, saving, identity, dashboard, hiring>>

NextDeleteJob ==
    \/ \E r \in Requests, id \in JobKeys, db \in DbAnswers :
          deleteJobFetch(r, id, db)
    \/ \E r \in Requests, db \in DbAnswers : deleteJobDelete(r, db)

SpecDeleteJob == InitDeleteJob /\ [][NextDeleteJob]_vars

(***************************************************************************)
(* GET /api/get-jobs.  The handler reads the jobs newest first, starts one *)
(* identity-provider lookup per row, and answers when Promise.all has all  *)
(* the results.  The lookups settle in any order.                          *)
(***************************************************************************)

RECURSIVE OrderByCreatedAtDesc(_)
\* .order("created_at", { ascending: false })
OrderByCreatedAtDesc(rows) ==
    IF rows = {} THEN <<>>
    ELSE LET newest == CHOOSE j \in rows :
                           \A k \in rows : k.created_at <= j.created_at
         IN  <<newest>> \o OrderByCreatedAtDesc(rows \ {newest})

\* How a lookup at the identity provider ends: a 2xx answer with the user,
\* another status, or a rejected fetch.
LookupOutcomes == {"ok", "non2xx", "rejected"}

\* value || "N/A"
OrNA(value) == IF value = "" THEN "N/A" ELSE value

\* recruiter.email_addresses?.[0]?.email_address
FirstEmail(recruiter) ==
    IF Len(recruiter.email_addresses) > 0 THEN recruiter.email_addresses[1]
    ELSE ""

\* { ...job, recruiter_email, recruiter_name, companies: { name: "N/A" } }
WithRecruiter(job, email, name) ==
    [id |-> job.id, recruiter_id |-> job.recruiter_id,
     created_at |-> job.created_at,
     recruiter_email |-> email, recruiter_name |-> name,
     companies |-> [name |-> "N/A"]]

\* The user the identity provider holds under this id.
ClerkUser(id) == CHOOSE u \in clerk : u.id = id

\* The value of one job's async callback.
Enrich(job, outcome) ==
    IF outcome = "ok"
    THEN WithRecruiter(job, OrNA(FirstEmail(ClerkUser(job.recruiter_id))),
                            OrNA(ClerkUser(job.recruiter_id).first_name))
    ELSE WithRecruiter(job, "N/A", "N/A")

InitGetJobs ==
    /\ BrowserIdle
    /\ SaveIdle
    /\ DashboardIdle
    /\ HiringIdle
    /\ jobs \in SUBSET AllJobs
    /\ dreq = [r \in Requests |-> IdleDelete]
    /\ gj = IdleGetJobs
    /\ clerk \in SUBSET AllClerkUsers
    /\ creq = [r \in Requests |-> IdleClerkRequest]

getJobsQuery(db) ==
    /\ gj.pc = "idle"
    /\ LET rows == OrderByCreatedAtDesc(jobs)
       IN  gj' =
             IF db # "ok"
             THEN [gj EXCEPT !.pc = "done", !.status = 500,
                             !.error = "Failed to fetch jobs"]
             ELSE IF Len(rows) = 0
             THEN [gj EXCEPT !.pc = "done", !.status = 200, !.body = <<>>]
             ELSE [gj EXCEPT !.pc = "lookups", !.jobs = rows,
                             !.lookups = [k \in 1..Len(rows) |-> "pending"],
                             !.results = [k \in 1..Len(rows) |-> rows[k]]]
    /\ UNCHANGED <<jobs, dreq>>
    /\ UNCHANGED <<browser, saving, identity, dashboard, hiring>>

\* The lookup for row k settles; a 2xx answer needs the user to exist.
LookupSettle(k, outcome) ==
    /\ gj.pc = "lookups"
    /\ k \in 1..Len(gj.jobs)
    /\ gj.lookups[k] = "pending"
    /\ outcome = "ok" => \E u \in clerk : u.id = gj.jobs[k].recruiter_id
    /\ gj' = [gj EXCEPT !.lookups[k] = outcome,
                        !.results[k] = Enrich(gj.jobs[k], outcome),
                        !.settled = Append(@, k)]
    /\ UNCHANGED <<jobs, dreq>>
    /\ UNCHANGED <<browser, saving, identity, dashboard, hiring>>

\* Promise.all rejects when a lookup has failed.
getJobsRespond_FailedLookupRejects ==
    /\ gj.pc = "lookups"
    /\ \A k \in 1..Len(gj.jobs) : gj.lookups[k] # "pending"
    /\ gj' = IF \A k \in 1..Len(gj.jobs) : gj.lookups[k] = "ok"
             THEN [gj EXCEPT !.pc = "done", !.status = 200,
                             !.body = gj.results]
             ELSE [gj EXCEPT !.pc = "done", !.status = 500]
    /\ UNCHANGED <<jobs, dreq>>
    /\ UNCHANGED <<browser, saving, identity, dashboard, hiring>>

\* The results are collected as the lookups complete.
getJobsRespond_CompletionOrder ==
    /\ gj.pc = "lookups"
    /\ \A k \in 1..Len(gj.jobs) : gj.lookups[k] # "pending"
    /\ gj' = [gj EXCEPT !.pc = "done", !.status = 200,
                        !.body = [i \in 1..Len(gj.settled) |->
                                     gj.results[gj.settled[i]]]]
    /\ UNCHANGED <<jobs, dreq>>
    /\ UNCHANGED <<browser, saving, identity, dashboard, hiring>>

\* Promise.all resolves with the results in the order of the rows.
getJobsRespond ==
    /\ gj.pc = "lookups"
    /\ \A k \in 1..Len(gj.jobs) : gj.lookups[k] # "pending"
    /\ gj' = [gj EXCEPT !.pc = "done", !.status = 200, !.body = gj.results]
    /\ UNCHANGED <<jobs, dreq>>
    /\ UNCHANGED <<browser, saving, identity, dashboard, hiring>>

NextGetJobs ==
    \/ \E db \in DbAnswers : getJobsQuery(db)
    \/ \E k \in 1..Cardinality(AllJobs), outcome \in LookupOutcomes :
          LookupSettle(k, outcome)
    \/ getJobsRespond

SpecGetJobs == InitGetJobs /\ [][NextGetJobs]_vars

(***************************************************************************)
(* GET /api/get-clerk-users.  The handler fetches the identity provider's  *)
(* user list, parses the answer's body as JSON and sends it on with 200;   *)
(* the catch answers 500.                                                  *)
(***************************************************************************)

\* How the call to the identity provider ends: a 2xx answer with the users,
\* another status with a JSON error body, an answer whose body is not JSON,
\* or a rejected fetch.
UpstreamOutcomes == {"ok", "non2xx", "notjson", "rejected"}

\* What response.json() gives for an answer of the identity provider.
UpstreamJson(upstream) ==
    IF upstream = "ok" THEN [kind |-> "users", users |-> clerk]
    ELSE [kind |-> "upstream error", users |-> {}]

InitClerk ==
    /\ BrowserIdle
    /\ SaveIdle
    /\ DashboardIdle
    /\ HiringIdle
    /\ JobsIdle
    /\ clerk \in SUBSET AllClerkUsers
    /\ creq = [r \in Requests |-> IdleClerkRequest]

getClerkUsers(r, upstream) ==
    /\ creq[r].pc = "idle"
    /\ creq' = [creq EXCEPT ![r] =
          IF upstream \in {"rejected", "notjson"}
          THEN [@ EXCEPT !.pc = "done", !.op = "list",
                         !.upstream = upstream, !.status = 500,
                         !.body = [kind |-> "Failed to fetch users",
                                   users |-> {}]]
          ELSE [@ EXCEPT !.pc = "done", !.op = "list",
                         !.upstream = upstream, !.status = 200,
                         !.body = UpstreamJson(upstream)]]
    /\ UNCHANGED clerk
    /\ UNCHANGED <<browser, saving, jobsAdmin, dashboard, hiring>>

NextClerk ==
    \E r \in Requests, upstream \in UpstreamOutcomes : getClerkUsers(r, upstream)

SpecClerk == InitClerk /\ [][NextClerk]_vars

(***************************************************************************)
(* DELETE /api/delete-user/:userId, POST /api/ban-user/:userId and         *)
(* POST /api/unban-user/:userId.  Each handler makes one call to the       *)
(* identity provider, answers 500 when the answer is not ok or the call    *)
(* throws, and 200 otherwise.                                              *)
(***************************************************************************)

UserOps == {"delete", "ban", "unban"}

\* The ids a request may name: the users of the identity provider and one id
\* it never holds.
UserIds == { u.id : u \in AllClerkUsers } \cup {"u9"}

\* How a call about one user ends at the identity provider: done (2xx), no
\* such user (404), another refusal, an error answer whose body is not JSON,
\* or a rejected fetch.
UserCallOutcomes == {"ok", "notfound", "non2xx", "notjson", "rejected"}

\* The outcomes the identity provider can give for this user id.
PossibleFor(userId, upstream) ==
    /\ upstream = "ok" => \E u \in clerk : u.id = userId
    /\ upstream = "notfound" => ~ \E u \in clerk : u.id = userId

\* The identity provider's users after a call that it carried out.
ClerkApply(op, userId) ==
    IF op = "delete" THEN { u \in clerk : u.id # userId }
    ELSE { IF u.id = userId THEN [u EXCEPT !.banned = (op = "ban")] ELSE u :
             u \in clerk }

\* An unknown user is answered as not found.
UserCallAnswer_NotFoundIs404(op, upstream) ==
    IF upstream = "ok"
    THEN [status |-> 200, body |-> [kind |-> "done", users |-> {}]]
    ELSE IF upstream = "notfound"
    THEN [status |-> 404, body |-> [kind |-> "not found", users |-> {}]]
    ELSE [status |-> 500, body |-> [kind |-> "failed", users |-> {}]]

\* if (!response.ok) 500 with the provider's error; catch: 500; else 200.
UserCallAnswer(op, upstream) ==
    IF upstream = "ok"
    THEN [status |-> 200, body |-> [kind |-> "done", users |-> {}]]
    ELSE IF upstream \in {"notfound", "non2xx"}
    THEN [status |-> 500, body |-> [kind |-> "Clerk call failed", users |-> {}]]
    ELSE [status |-> 500, body |-> [kind |-> "Server error", users |-> {}]]

\* One handler run: the call, its effect at the provider, the answer.
UserCall(r, op, userId, upstream) ==
    /\ creq[r].pc = "idle"
    /\ PossibleFor(userId, upstream)
    /\ clerk' = IF upstream = "ok" THEN ClerkApply(op, userId) ELSE clerk
    /\ creq' = [creq EXCEPT ![r] =
          [@ EXCEPT !.pc = "done", !.op = op, !.userId = userId,
                    !.fetched = Append(@, [op |-> op, userId |-> userId]),
                    !.upstream = upstream,
                    !.status = UserCallAnswer(op, upstream).status,
                    !.body = UserCallAnswer(op, upstream).body]]
    /\ UNCHANGED <<browser, saving, jobsAdmin, dashboard, hiring>>

deleteUser(r, userId, upstream) == UserCall(r, "delete", userId, upstream)

banUser(r, userId, upstream) == UserCall(r, "ban", userId, upstream)

unbanUser(r, userId, upstream) == UserCall(r, "unban", userId, upstream)

\* The users of the identity provider, each absent, present or banned.
ClerkStates ==
    { S \in SUBSET (AllClerkUsers
                      \cup { [u EXCEPT !.banned = TRUE] : u \in AllClerkUsers }) :
        \A u, v \in S : u.id = v.id => u = v }

InitUserAdmin ==
    /\ BrowserIdle
    /\ SaveIdle
    /\ JobsIdle
    /\ DashboardIdle
    /\ HiringIdle
    /\ clerk \in ClerkStates
    /\ creq = [r \in Requests |-> IdleClerkRequest]

NextUserAdmin ==
    \/ \E r \in Requests, userId \in UserIds, upstream \in UserCallOutcomes :
          deleteUser(r, userId, upstream)
    \/ \E r \in Requests, userId \in UserIds, upstream \in UserCallOutcomes :
          banUser(r, userId, upstream)
    \/ \E r \in Requests, userId \in UserIds, upstream \in UserCallOutcomes :
          unbanUser(r, userId, upstream)

SpecUserAdmin == InitUserAdmin /\ [][NextUserAdmin]_vars

(***************************************************************************)
(* The administrative server as a whole.  app.use(cors()) and              *)
(* app.use(express.json()) are its only middleware: a request reaches its  *)
(* handler whoever sent it, and no handler reads who that was.  The        *)
(* dashboard page that normally sends the requests is behind the admin     *)
(* guard, the server's port is not.                                        *)
(***************************************************************************)

\* Who can send a request: nobody signed in, or a signed-in principal with
\* any role.
Principals ==
    {Anonymous} \cup { [signedIn |-> TRUE, role |-> r] : r \in Roles }

InitAdminApi ==
    /\ BrowserIdle
    /\ SaveIdle
    /\ HiringIdle
    /\ jobs = AllJobs
    /\ dreq = [r \in Requests |-> IdleDelete]
    /\ gj = IdleGetJobs
    /\ clerk = AllClerkUsers
    /\ creq = [r \in Requests |-> IdleClerkRequest]
    /\ sender \in [Requests -> Principals]
    /\ users = {}
    /\ searchEmail = <<>>

\* Request r goes to one endpoint.
NextAdminApi ==
    \/ \E r \in Requests, upstream \in UpstreamOutcomes :
          dreq[r].pc = "idle" /\ getClerkUsers(r, upstream)
    \/ \E r \in Requests, userId \in UserIds, upstream \in UserCallOutcomes :
          dreq[r].pc = "idle" /\ deleteUser(r, userId, upstream)
    \/ \E r \in Requests, userId \in UserIds, upstream \in UserCallOutcomes :
          dreq[r].pc = "idle" /\ banUser(r, userId, upstream)
    \/ \E r \in Requests, userId \in UserIds, upstream \in UserCallOutcomes :
          dreq[r].pc = "idle" /\ unbanUser(r, userId, upstream)
    \/ \E r \in Requests, id \in JobKeys, db \in DbAnswers :
          creq[r].pc = "idle" /\ deleteJobFetch(r, id, db)
    \/ \E r \in Requests, db \in DbAnswers : deleteJobDelete(r, db)

SpecAdminApi == InitAdminApi /\ [][NextAdminApi]_vars

(***************************************************************************)
(* The admin dashboard's user table.  filteredUsers is computed on every   *)
(* render from the users state and the search text.  A text is the         *)
(* sequence of its characters.                                             *)
(***************************************************************************)

\* String.prototype.toLowerCase, on the letters the texts below use.
LowerChar(ch) ==
    CASE ch = "A" -> "a"
      [] ch = "L" -> "l"
      [] ch = "B" -> "b"
      [] OTHER -> ch

toLowerCase(text) == [k \in 1..Len(text) |-> LowerChar(text[k])]

\* String.prototype.includes
includes(text, part) ==
    \E k \in 0..Len(text) :
        /\ k + Len(part) <= Len(text)
        /\ SubSeq(text, k + 1, k + Len(part)) = part

\* String.prototype.endsWith
endsWith(text, suffix) ==
    /\ Len(suffix) <= Len(text)
    /\ SubSeq(text, Len(text) - Len(suffix) + 1, Len(text)) = suffix

AdminDomain == <<"@", "a", "d", "m", "i", "n", ".", "c", "o", "m">>

\* The users the dashboard may have loaded: a candidate, an admin with an
\* address at admin.com, an admin with another address, a recruiter with an
\* address at admin.com, a candidate with no address.
DashboardUsers ==
    { [id |-> "d1", role |-> "candidate", first_name |-> <<"A", "l">>,
       username |-> <<>>, email_addresses |-> <<<<"a", "l", "@", "x", ".", "i", "o">>>>],
      [id |-> "d2", role |-> "admin", first_name |-> <<>>,
       username |-> <<"r", "o", "o", "t">>, email_addresses |-> <<<<"r", "o", "o", "t", "@", "a", "d", "m", "i", "n", ".", "c", "o", "m">>>>],
      [id |-> "d3", role |-> "admin", first_name |-> <<"B", "o">>,
       username |-> <<>>, email_addresses |-> <<<<"b", "o", "@", "x", ".", "i", "o">>>>],
      [id |-> "d4", role |-> "recruiter", first_name |-> <<>>,
       username |-> <<"h", "r">>, email_addresses |-> <<<<"h", "r", "@", "a", "d", "m", "i", "n", ".", "c", "o", "m">>>>],
      [id |-> "d5", role |-> "candidate", first_name |-> <<"A", "l">>,
       username |-> <<"a", "l">>, email_addresses |-> <<>>] }

\* The texts typed into the search box.
SearchTexts == { <<>>, <<"a", "l">>, <<"A", "L">>, <<"x", ".", "i", "o">>, <<"b", "o">> }

\* user.email_addresses?.[0]?.email_address || ""
PrimaryEmail(user) ==
    IF Len(user.email_addresses) > 0 THEN user.email_addresses[1] ELSE <<>>

\* The search half of the filter.
MatchesSearch(user, text) ==
    \/ includes(toLowerCase(PrimaryEmail(user)), toLowerCase(text))
    \/ includes(toLowerCase(user.first_name), toLowerCase(text))
    \/ includes(toLowerCase(user.username), toLowerCase(text))

filteredUsers ==
    { user \in users :
        /\ ~ endsWith(PrimaryEmail(user), AdminDomain)
        /\ MatchesSearch(user, searchEmail) }

InitDashboard ==
    /\ BrowserIdle
    /\ SaveIdle
    /\ JobsIdle
    /\ IdentityIdle
    /\ HiringIdle
    /\ sender = [r \in Requests |-> Anonymous]
    /\ users \in SUBSET DashboardUsers
    /\ searchEmail = <<>>

\* onChange of the search box.
setSearchEmail(text) ==
    /\ searchEmail' = text
    /\ UNCHANGED <<sender, users>>
    /\ UNCHANGED <<browser, saving, jobsAdmin, identity, hiring>>

NextDashboard == \E text \in SearchTexts : setSearchEmail(text)

SpecDashboard == InitDashboard /\ [][NextDashboard]_vars

(***************************************************************************)
(* updateApplicationStatus(token, { job_id }, status): one update of the   *)
(* applications table, .update({ status }).eq("job_id", job_id).select().  *)
(***************************************************************************)

\* The applications the table may hold: two candidates applied to job j1,
\* one of them to job j2 as well.
AllApplications ==
    { [id |-> "a1", job_id |-> "j1", candidate_id |-> "u1"],
      [id |-> "a2", job_id |-> "j1", candidate_id |-> "u2"],
      [id |-> "a3", job_id |-> "j2", candidate_id |-> "u1"] }

\* Values of the status column.
Statuses == {"applied", "interviewing", "hired"}

\* An application row with its status.
WithStatus(application, status) ==
    [id |-> application.id, job_id |-> application.job_id,
     candidate_id |-> application.candidate_id, status |-> status]

\* The tables: each application absent, or present with some status.
ApplicationTables ==
    { T \in SUBSET { WithStatus(a, st) : a \in AllApplications,
                                         st \in {"applied", "interviewing"} } :
        \A x, y \in T : x.id = y.id => x = y }

InitUpdateStatus ==
    /\ BrowserIdle
    /\ SaveIdle
    /\ JobsIdle
    /\ IdentityIdle
    /\ DashboardIdle
    /\ applications \in ApplicationTables
    /\ ucall = IdleUpdate

updateApplicationStatus(job_id, status, db) ==
    /\ ucall.pc = "idle"
    /\ LET matched == { a \in applications : a.job_id = job_id }
           data == IF db = "ok" THEN { WithStatus(a, status) : a \in matched }
                   ELSE {}
       IN  /\ applications' =
                 IF db = "ok" THEN (applications \ matched) \cup data
                 ELSE applications
           /\ ucall' = [ucall EXCEPT
                 !.pc = "done", !.job_id = job_id, !.status = status,
                 !.error = IF db = "ok" THEN "none" ELSE "error",
                 !.ret = IF db # "ok" \/ data = {} THEN "null" ELSE "data",
                 !.data = IF db # "ok" \/ data = {} THEN {} ELSE data]
    /\ UNCHANGED <<browser, saving, jobsAdmin, identity, dashboard>>

NextUpdateStatus ==
    \E job_id \in JobIds, status \in Statuses, db \in DbOutcomes :
        updateApplicationStatus(job_id, status, db)

SpecUpdateStatus == InitUpdateStatus /\ [][NextUpdateStatus]_vars

(***************************************************************************)
(* Properties.                                                             *)
(***************************************************************************)

\* The guard answered with a redirect to `to`.
GuardRedirect(to) == view = [kind |-> "navigate", to |-> to, by |-> "guard"]

\* A signed-in principal whose session has loaded.
SignedInLoaded == isLoaded /\ isSignedIn

\* This step is the then-callback of update i.
ThenStep(i) ==
    /\ i \in DOMAIN inflight
    /\ inflight[i].phase = "committed"
    /\ isLoaded'
    /\ inflight' = RemoveAt(inflight, i)

\* This step is the catch-callback of update i.
CatchStep(i) ==
    /\ i \in DOMAIN inflight
    /\ inflight[i].phase = "rejected"
    /\ isLoaded'
    /\ inflight' = RemoveAt(inflight, i)

\* C1: the guard decides by the first matching rule, in the order: not
\* loaded -> nothing; not signed in -> '/?sign-in=true'; requiredRole
\* declared and different from the role -> '/'; admin off '/admin' ->
\* '/admin'; non-admin on '/admin' -> '/'; no role off '/onboarding' ->
\* '/onboarding'; otherwise the children.  Checked for every combination of
\* the guard's inputs.
C1_GuardTable ==
    view # Pending =>
        LET r1 == ~isLoaded
            r2 == ~isSignedIn
            r3 == requiredRole # "none" /\ role # requiredRole
            r4 == role = "admin" /\ pathname # "/admin"
            r5 == role # "admin" /\ pathname = "/admin"
            r6 == role = "unset" /\ pathname # "/onboarding"
        IN  /\ r1 => view.kind = "null"
            /\ (~r1 /\ r2) => GuardRedirect(SignInTarget)
            /\ (~r1 /\ ~r2 /\ r3) => GuardRedirect("/")
            /\ (~r1 /\ ~r2 /\ ~r3 /\ r4) => GuardRedirect("/admin")
            /\ (~r1 /\ ~r2 /\ ~r3 /\ ~r4 /\ r5) => GuardRedirect("/")
            /\ (~r1 /\ ~r2 /\ ~r3 /\ ~r4 /\ ~r5 /\ r6) =>
                   GuardRedirect("/onboarding")
            /\ (~r1 /\ ~r2 /\ ~r3 /\ ~r4 /\ ~r5 /\ ~r6) =>
                   view.kind = "children"

\* A case where two rules match and the earlier one decided: no role, on
\* '/admin', no requiredRole.
C1_Witness ==
    /\ SignedInLoaded
    /\ role = "unset"
    /\ pathname = "/admin"
    /\ requiredRole = "none"
    /\ GuardRedirect("/")

\* C2: a signed-in admin on any route other than '/admin' is redirected to
\* '/admin' by the guard; the requested page is not rendered.
C2_AdminOnlyAdminPage ==
    (SignedInLoaded /\ role = "admin" /\ pathname # "/admin") =>
        /\ GuardRedirect("/admin")
        /\ view.kind # "page"

C2_Witness ==
    /\ SignedInLoaded
    /\ role = "admin"
    /\ pathname = "/post-job"
    /\ GuardRedirect("/admin")

\* C3: a signed-in principal whose role is not admin is redirected from
\* '/admin' to '/'; the admin page is not rendered.
C3_NonAdminOffAdminPage ==
    (SignedInLoaded /\ role # "admin" /\ pathname = "/admin") =>
        /\ GuardRedirect("/")
        /\ view.kind # "page"

C3_Witness ==
    /\ SignedInLoaded
    /\ role = "unset"
    /\ pathname = "/admin"
    /\ GuardRedirect("/")

\* C4 as stated: a signed-in principal with no role is redirected to
\* '/onboarding' from every route other than '/onboarding', '/admin'
\* included.
C4_Original ==
    (SignedInLoaded /\ role = "unset" /\ pathname # "/onboarding") =>
        GuardRedirect("/onboarding")

\* C4 amended: a signed-in principal with no role is redirected to
\* '/onboarding' from every route other than '/onboarding' and '/admin';
\* from '/admin' the guard redirects to '/', from where the guard redirects
\* to '/onboarding'.
C4_Amended ==
    (SignedInLoaded /\ role = "unset" /\ pathname # "/onboarding") =>
        IF pathname = "/admin"
        THEN GuardRedirect("/")
        ELSE GuardRedirect("/onboarding")

\* On '/' after one redirect (that of '/admin'), sent on to '/onboarding'.
C4_Witness ==
    /\ SignedInLoaded
    /\ role = "unset"
    /\ pathname = "/"
    /\ hops = 1
    /\ GuardRedirect("/onboarding")

\* C5: a signed-in principal with no role is shown no page other than
\* '/onboarding'.
C5_NoRoleSeesOnlyOnboarding ==
    (SignedInLoaded /\ role = "unset" /\ view.kind = "page") =>
        pathname = "/onboarding"

C5_Witness ==
    /\ SignedInLoaded
    /\ role = "unset"
    /\ view.kind = "page"
    /\ pathname = "/onboarding"

\* The routes from which the guard sends a principal with no role to
\* '/onboarding'.
RedirectedWhileUnset ==
    {p \in Paths :
        ProtectedRoute(TRUE, TRUE, "unset", RequiredRole(p), p)
            = Navigate("/onboarding")}

\* C6 as stated: with the role set to candidate or recruiter, every route
\* that redirected to '/onboarding' while the role was unset now shows its
\* page, the page's own redirects counted.
C6_Original ==
    (SignedInLoaded /\ role \in SelectableRoles
                    /\ pathname \in RedirectedWhileUnset) =>
        view.kind = "page"

\* C6 amended: with the role set to candidate or recruiter, the guard lets
\* through every route that redirected to '/onboarding' while the role was
\* unset, and the page is shown, except that the page of '/post-job'
\* redirects a candidate to '/jobs'.
C6_Amended ==
    (SignedInLoaded /\ role \in SelectableRoles
                    /\ pathname \in RedirectedWhileUnset) =>
        /\ view.by = "page"
        /\ \/ view.kind = "page"
           \/ /\ pathname = "/post-job"
              /\ role = "candidate"
              /\ view = [kind |-> "navigate", to |-> "/jobs", by |-> "page"]

\* A recruiter, whose role was chosen in this session, shown '/post-job'.
C6_Witness ==
    /\ SignedInLoaded
    /\ role = "recruiter"
    /\ pathname = "/post-job"
    /\ view.kind = "page"
    /\ inflight # <<>>

\* C7: the stored role changes only from unset; once set no step changes it.
C7_RoleChangesOnce ==
    [][profileRole' # profileRole => profileRole = "unset"]_vars

\* C8: when the profile update succeeds, the then-callback navigates to
\* '/post-job' for recruiter and to '/jobs' for any other role; when it
\* fails, the catch-callback leaves the location, what is shown and the
\* role, on the client and on the profile, as they were.
C8_RoleSelectionOutcome ==
    [][\A i \in DOMAIN inflight :
          /\ ThenStep(i) =>
                /\ pathname' = (IF inflight[i].role = "recruiter"
                                THEN "/post-job" ELSE "/jobs")
                /\ search' = ""
                /\ profileRole' = profileRole
          /\ CatchStep(i) =>
                UNCHANGED <<pathname, search, view, role, profileRole>>]_vars

\* One update succeeded and navigated while another, rejected, has its
\* catch-callback still to run.
C8_Witness ==
    /\ SignedInLoaded
    /\ role = "candidate"
    /\ pathname = "/jobs"
    /\ hops = 0
    /\ Len(inflight) = 1
    /\ inflight[1].phase = "rejected"

\* C9: a signed-in principal with no role asking for '/jobs' is redirected
\* to '/onboarding'; the then-callback of a single selection of candidate
\* finds the profile role candidate and leaves the principal on '/jobs',
\* shown; from then on '/jobs', reloaded or not, is shown with no redirect.
C9_EndToEnd ==
    /\ []((SignedInLoaded /\ role = "unset" /\ pathname = "/jobs") =>
              GuardRedirect("/onboarding"))
    /\ [][\A i \in DOMAIN inflight :
             (/\ ThenStep(i)
              /\ inflight[i].role = "candidate"
              /\ Len(inflight) = 1
              /\ role = "unset") =>
                 /\ profileRole' = "candidate"
                 /\ role' = "candidate"
                 /\ pathname' = "/jobs"
                 /\ view'.kind = "page"]_vars
    /\ []((SignedInLoaded /\ role = "candidate" /\ pathname = "/jobs") =>
              view.kind = "page")

\* The new principal, now a candidate, shown '/jobs'.
C9_Witness ==
    /\ SignedInLoaded
    /\ profileRole = "candidate"
    /\ role = "candidate"
    /\ pathname = "/jobs"
    /\ view.kind = "page"
    /\ inflight = <<>>

\* C10: after a reload that fell between a successful update and its
\* navigation, the stored role is set; once the session has loaded the
\* client sees the role, the guard does not redirect to '/onboarding', and
\* a page is shown after at most one redirect.
C10_SelfHealing ==
    crashed =>
        /\ profileRole # "unset"
        /\ isLoaded =>
              /\ isSignedIn
              /\ role = profileRole
              /\ ~GuardRedirect("/onboarding")
              /\ \/ view.kind = "page"
                 \/ RedirectPending /\ hops = 0

C10_Witness ==
    /\ crashed
    /\ isLoaded
    /\ view.kind = "page"

\* This step is the identity provider applying update i.
ApplyStep(i) ==
    /\ i \in DOMAIN inflight
    /\ inflight[i].phase = "sent"
    /\ inflight' = [inflight EXCEPT ![i].phase = "committed"]

\* Only recruiter has been selected: every pending update asks for
\* recruiter and the stored role is unset or recruiter already.
OnlyRecruiterSelected ==
    /\ profileRole \in {"unset", "recruiter"}
    /\ \A j \in DOMAIN inflight : inflight[j].role = "recruiter"

\* C11: recruiter assigned twice in succession: each update leaves the
\* profile role recruiter when it is applied and when its callback runs,
\* and each then-callback navigates to '/post-job', which is shown.
C11_AssignRecruiterTwice ==
    [][\A i \in DOMAIN inflight :
          OnlyRecruiterSelected =>
             /\ ApplyStep(i) => profileRole' = "recruiter"
             /\ ThenStep(i) =>
                   /\ profileRole' = "recruiter"
                   /\ role' = "recruiter"
                   /\ pathname' = "/post-job"
                   /\ view'.kind = "page"]_vars

\* Both updates applied, the first has navigated, the second has its
\* then-callback still to run.
C11_Witness ==
    /\ SignedInLoaded
    /\ profileRole = "recruiter"
    /\ role = "recruiter"
    /\ pathname = "/post-job"
    /\ view.kind = "page"
    /\ inflight = <<[role |-> "recruiter", phase |-> "committed"]>>

\* C12: every route other than '/' is closed to a visitor who is not signed
\* in, and the landing page '/' is shown to such a visitor.
C12_OnlyLandingIsPublic ==
    (isLoaded /\ ~isSignedIn) =>
        IF pathname = "/" THEN view.kind = "page" ELSE view.kind # "page"

\* This step is caller c's select.
CheckStep(c) == calls[c].pc = "idle" /\ calls'[c] # calls[c]

\* This step is caller c's delete or insert.
ToggleStep(c) == calls[c].pc = "checked" /\ calls'[c].pc = "idle"

\* The rows of every pair other than sd stay as they are in this step.
OthersKept(sd) == \A q \in Pairs : q # sd => saved_jobs'[q] = saved_jobs[q]

\* C13: saveJob: rows found for the pair -> all of them deleted, [] returned;
\* none found -> exactly one row inserted for the pair and returned; a
\* failing select, delete or insert -> the call throws, and only then, and
\* the table is left as it was.
C13_SaveJobToggle ==
    [][\A c \in Callers :
          /\ CheckStep(c) =>
                /\ saved_jobs' = saved_jobs
                /\ (calls'[c].error # "none") <=> (calls'[c].ret = Thrown)
                /\ calls'[c].error = "none" =>
                      /\ calls'[c].pc = "checked"
                      /\ calls'[c].existingSaves
                             = saved_jobs[calls'[c].saveData]
          /\ ToggleStep(c) =>
                LET sd == calls[c].saveData
                    found == calls[c].existingSaves > 0
                    after == calls'[c]
                IN  /\ (after.error # "none") <=> (after.ret = Thrown)
                    /\ after.error # "none" => saved_jobs' = saved_jobs
                    /\ (after.error = "none" /\ found) =>
                          /\ saved_jobs'[sd] = 0
                          /\ after.ret = Returned(<<>>)
                          /\ OthersKept(sd)
                    /\ (after.error = "none" /\ ~found) =>
                          /\ saved_jobs'[sd] = saved_jobs[sd] + 1
                          /\ after.ret = Returned(<<sd>>)
                          /\ OthersKept(sd)]_vars

\* A call that found the pair saved, failed to delete and threw.
C13_Witness ==
    \E c \in Callers :
        /\ calls[c].pc = "idle"
        /\ calls[c].error = "deleteError"
        /\ calls[c].ret = Thrown
        /\ saved_jobs[calls[c].saveData] = 1

\* Caller c alone has called saveJob: no other caller has started a call.
SingleCaller(c) ==
    \A d \in Callers \ {c} : calls[d].n = 0 /\ calls[d].pc = "idle"

\* C14: for a single caller, two saveJob calls that went through, one after
\* the other, leave the pair saved if and only if it was saved before, and
\* leave the rows of every other pair as they were.
C14_ToggleTwice ==
    \A c \in Callers :
        (SingleCaller(c) /\ calls[c].pc = "idle" /\ calls[c].ok = 2) =>
            LET sd == calls[c].saveData
            IN  /\ (saved_jobs[sd] > 0) <=> (saved0[sd] > 0)
                /\ \A q \in Pairs : q # sd => saved_jobs[q] = saved0[q]

\* A pair saved at the start, toggled twice by one caller, while another
\* user has the same job saved.
C14_Witness ==
    \E c \in Callers :
        /\ SingleCaller(c)
        /\ calls[c].pc = "idle"
        /\ calls[c].ok = 2
        /\ saved0[calls[c].saveData] = 1
        /\ saved_jobs[calls[c].saveData] = 1
        /\ \E q \in Pairs :
              /\ q.job_id = calls[c].saveData.job_id
              /\ q # calls[c].saveData
              /\ saved_jobs[q] = 1

\* Callers c and d have each made one call, for the same pair, and both
\* calls returned.
BothReturned(c, d) ==
    /\ c # d
    /\ calls[c].saveData = calls[d].saveData
    /\ calls[c].pc = "idle" /\ calls[d].pc = "idle"
    /\ calls[c].n = 1 /\ calls[d].n = 1
    /\ calls[c].ret.outcome = "returned"
    /\ calls[d].ret.outcome = "returned"

\* C15: two toggles of one pair that both report saved have both seen the
\* pair absent and both inserted: the pair then has two rows; two toggles
\* that both report unsaved have both seen it present, and the pair has no
\* row.
C15_ConcurrentToggles ==
    \A c, d \in Callers :
        BothReturned(c, d) =>
            LET sd == calls[c].saveData
            IN  /\ (calls[c].ret.data = <<sd>> /\ calls[d].ret.data = <<sd>>) =>
                      /\ saved0[sd] = 0
                      /\ saved_jobs[sd] = 2
                /\ (calls[c].ret.data = <<>> /\ calls[d].ret.data = <<>>) =>
                      /\ saved0[sd] > 0
                      /\ saved_jobs[sd] = 0

\* Two rows for one pair, both callers told "saved".
C15_Witness ==
    \E c, d \in Callers :
        /\ BothReturned(c, d)
        /\ calls[c].ret.data = <<calls[c].saveData>>
        /\ calls[d].ret.data = <<calls[c].saveData>>
        /\ saved_jobs[calls[c].saveData] = 2

\* Both callers told "unsaved" for one pair.
C15_BothUnsaved ==
    \E c, d \in Callers :
        /\ BothReturned(c, d)
        /\ calls[c].ret.data = <<>>
        /\ calls[d].ret.data = <<>>

\* This step is request r's existence read.
FetchStep(r) == dreq[r].pc = "idle" /\ dreq'[r].pc # "idle"

\* This step is request r's delete.
DeleteStep(r) == dreq[r].pc = "fetched" /\ dreq'[r].pc = "done"

\* C16: delete-job, the database answering: an id with no job row -> 404 and
\* no row deleted; an id with a job row -> exactly that row removed, every
\* other row kept, 200 with rowsAffected = 1 and deletedJob = the row as it
\* was. No request that answers 404 deletes a row.
C16_DeleteJob ==
    [][\A r \in Requests :
          /\ FetchStep(r) =>
                /\ jobs' = jobs
                /\ (dreq'[r].fetchError # "threw"
                        /\ RowsWithId(dreq'[r].jobId) = {}) =>
                      /\ dreq'[r].pc = "done"
                      /\ dreq'[r].status = 404
                /\ (dreq'[r].fetchError = "none") =>
                      /\ dreq'[r].pc = "fetched"
                      /\ dreq'[r].existingJob \in jobs
                      /\ dreq'[r].existingJob.id = dreq'[r].jobId
          /\ (DeleteStep(r) /\ dreq'[r].error = "none"
                /\ RowsWithId(dreq[r].jobId) # {}) =>
                \E row \in jobs :
                    /\ row.id = dreq[r].jobId
                    /\ jobs' = jobs \ {row}
                    /\ dreq'[r].status = 200
                    /\ dreq'[r].rowsAffected = 1
                    /\ dreq'[r].deletedJob = row
                    /\ dreq'[r].deletedJob = dreq[r].existingJob
          /\ (DeleteStep(r) /\ dreq'[r].status # 200) => jobs' = jobs]_vars

\* One request has deleted its job and left another row in place; the other
\* request asked for a job that is not there and was told 404.
C16_Witness ==
    \E r, q \in Requests :
        /\ dreq[r].status = 200
        /\ dreq[r].rowsAffected = 1
        /\ dreq[r].deletedJob \notin jobs
        /\ jobs # {}
        /\ dreq[q].status = 404
        /\ dreq[q].fetchError = "no rows"

\* C17: delete-job answers 404 exactly when the existence read found no job;
\* a failing delete, a delete of zero rows and a failure of the database are
\* answered 500.
C17_NotFoundOnlyWhenAbsent ==
    \A r \in Requests :
        dreq[r].pc = "done" =>
            /\ (dreq[r].status = 404) <=> (dreq[r].fetchError = "no rows")
            /\ dreq[r].fetchError \in {"failure", "threw"} => dreq[r].status = 500
            /\ dreq[r].error # "none" => dreq[r].status = 500
            /\ (dreq[r].fetchError = "none" /\ dreq[r].rowsAffected = 0) =>
                  dreq[r].status = 500

\* The part of C17 about the delete: once the job was found, a failing delete
\* and a delete of zero rows are answered 500.
DeleteFailuresAre500 ==
    \A r \in Requests :
        (dreq[r].pc = "done" /\ dreq[r].fetchError = "none") =>
            /\ dreq[r].status \in {200, 500}
            /\ (dreq[r].status = 500) <=>
                  (dreq[r].error # "none" \/ dreq[r].rowsAffected = 0)

\* A request found its job, and its delete then removed no row.
ZeroRowsDeleted ==
    \E r \in Requests :
        /\ dreq[r].pc = "done"
        /\ dreq[r].fetchError = "none"
        /\ dreq[r].error = "none"
        /\ dreq[r].rowsAffected = 0

\* The response's entries for the job with this id.
EntriesFor(id) == { i \in 1..Len(gj.body) : gj.body[i].id = id }

\* C18: get-jobs, once the jobs were read: a failed recruiter lookup leaves
\* its job in the 200 response with recruiter_email and recruiter_name
\* "N/A"; the jobs whose lookup succeeded carry their recruiter's data all
\* the same.
C18_FailedLookupFallback ==
    (gj.pc = "done" /\ gj.error = "none") =>
        /\ gj.status = 200
        /\ \A k \in 1..Len(gj.jobs) :
              \E i \in EntriesFor(gj.jobs[k].id) :
                 IF gj.lookups[k] = "ok"
                 THEN gj.body[i] = Enrich(gj.jobs[k], "ok")
                 ELSE /\ gj.body[i].recruiter_email = "N/A"
                      /\ gj.body[i].recruiter_name = "N/A"
                      /\ gj.body[i].recruiter_id = gj.jobs[k].recruiter_id
                      /\ gj.body[i].created_at = gj.jobs[k].created_at

\* One lookup failed, another found a recruiter with a name and an address.
C18_Witness ==
    /\ gj.pc = "done"
    /\ gj.status = 200
    /\ \E k \in 1..Len(gj.jobs) : gj.lookups[k] \in {"non2xx", "rejected"}
    /\ \E i \in 1..Len(gj.body) :
          /\ gj.body[i].recruiter_name = "Ada"
          /\ gj.body[i].recruiter_email = "ada@hired.test"

\* C19: get-jobs answers one entry per job row, newest first, in whatever
\* order the lookups completed; 200 with [] when there is no job; 500 when
\* the read of the jobs fails.
C19_OneEntryPerJobInOrder ==
    gj.pc = "done" =>
        IF gj.error # "none" THEN gj.status = 500
        ELSE /\ gj.status = 200
             /\ Len(gj.body) = Cardinality(jobs)
             /\ \A j \in jobs : Cardinality(EntriesFor(j.id)) = 1
             /\ \A i \in 1..Len(gj.body) :
                   /\ gj.body[i].id = gj.jobs[i].id
                   /\ \A k \in 1..Len(gj.body) :
                         i < k => gj.body[i].created_at > gj.body[k].created_at
             /\ jobs = {} => gj.body = <<>>

\* Three jobs answered while the lookups completed in another order than
\* the rows.
C19_Witness ==
    /\ gj.pc = "done"
    /\ gj.status = 200
    /\ Len(gj.body) = 3
    /\ gj.settled = <<3, 1, 2>>

\* No job: 200 with an empty array.
NoJobsEmptyArray == gj.pc = "done" /\ gj.status = 200 /\ jobs = {}

\* C20: get-clerk-users answers 200 with the identity provider's users when
\* the call to the identity provider succeeds, and 500 when it fails, a
\* non-2xx answer included.
C20_UpstreamFailureIs500 ==
    \A r \in Requests :
        creq[r].pc = "done" =>
            IF creq[r].upstream = "ok"
            THEN /\ creq[r].status = 200
                 /\ creq[r].body = [kind |-> "users", users |-> clerk]
            ELSE creq[r].status = 500

\* The part of C20 the handler keeps: a 2xx answer is passed on with 200, a
\* rejected fetch and a body that is not JSON are answered 500.
ClerkUsersPassedOn ==
    \A r \in Requests :
        creq[r].pc = "done" =>
            /\ creq[r].upstream = "ok" =>
                  /\ creq[r].status = 200
                  /\ creq[r].body = [kind |-> "users", users |-> clerk]
            /\ creq[r].upstream \in {"rejected", "notjson"} =>
                  creq[r].status = 500

\* C21: delete-user, ban-user and unban-user make exactly one call to the
\* identity provider, for the user id of the request; they answer 200 if
\* and only if that call succeeded, and 500, never 404, for an unknown
\* user, any other non-2xx answer and a rejected call.
C21_UserCallsCollapseTo500 ==
    \A r \in Requests :
        (creq[r].pc = "done" /\ creq[r].op \in UserOps) =>
            /\ creq[r].fetched = <<[op |-> creq[r].op, userId |-> creq[r].userId]>>
            /\ (creq[r].status = 200) <=> (creq[r].upstream = "ok")
            /\ creq[r].upstream # "ok" => creq[r].status = 500
            /\ creq[r].status # 404

\* An unknown user, deleted, banned and unbanned: 500 each time; and a user
\* that is there banned with 200.
C21_Witness ==
    /\ \E r \in Requests :
          /\ creq[r].pc = "done"
          /\ creq[r].op \in UserOps
          /\ creq[r].upstream = "notfound"
          /\ creq[r].status = 500
    /\ \E r \in Requests :
          /\ creq[r].op = "ban"
          /\ creq[r].status = 200
          /\ \E u \in clerk : u.id = creq[r].userId /\ u.banned

\* Request r was answered 200: its operation took effect.
TookEffect(r) ==
    \/ creq[r].pc = "done" /\ creq[r].status = 200
    \/ dreq[r].pc = "done" /\ dreq[r].status = 200

\* C22: every administrative operation that takes effect was requested by a
\* signed-in principal whose role is admin.
C22_OnlyAdminsTakeEffect ==
    \A r \in Requests :
        TookEffect(r) => (sender[r].signedIn /\ sender[r].role = "admin")

\* A user deleted at the identity provider on the request of nobody signed in.
AnonymousDeletesUser ==
    \E r \in Requests :
        /\ sender[r] = Anonymous
        /\ creq[r].op = "delete"
        /\ creq[r].status = 200
        /\ ~ \E u \in clerk : u.id = creq[r].userId

\* C23: the user table lists no user whose role is admin, and lists every
\* other user that matches the search text.
C23_TableHidesAdmins ==
    \A user \in users :
        IF user.role = "admin" THEN user \notin filteredUsers
        ELSE MatchesSearch(user, searchEmail) => user \in filteredUsers

\* An admin is listed.
AdminListed == \E user \in filteredUsers : user.role = "admin"

\* A recruiter that matches the search is not listed.
NonAdminHidden ==
    \E user \in users :
        /\ user.role # "admin"
        /\ MatchesSearch(user, searchEmail)
        /\ user \notin filteredUsers

\* C24: for a signed-in principal of any role on any route, the redirects of
\* the guard and of the pages end at a rendered page; the chain never
\* reaches the bound on followed redirects, so it has no cycle.
C24_RedirectsConverge ==
    /\ [](RedirectPending => hops < MaxHops)
    /\ [](SignedInLoaded => (view.kind = "page" \/ RedirectPending))
    /\ (SignedInLoaded /\ RedirectPending)
          ~> (view.kind = "page" \/ ~isLoaded)

\* A chain of two redirects that ended at a page: the guard's, then the
\* page's own.
C24_Witness ==
    /\ SignedInLoaded
    /\ hops = 2
    /\ view.kind = "page"

\* No chain is longer than two redirects.
AtMostTwoHops == hops <= 2

\* C25: the onboarding screen only writes candidate or recruiter: no step of
\* the application turns a role that is not admin into admin, on the profile
\* or in the client, and every update under way asks for candidate or
\* recruiter.
C25_NeverBecomesAdmin ==
    /\ [][(profileRole' = "admin" => profileRole = "admin")
            /\ (role' = "admin" => profileRole = "admin")]_vars
    /\ [](\A i \in DOMAIN inflight : inflight[i].role \in {"candidate", "recruiter"})

\* A principal that began without a role has had a selection written to the
\* profile.
C25_Witness ==
    \E i \in DOMAIN inflight :
        /\ inflight[i].phase = "committed"
        /\ profileRole = inflight[i].role
        /\ role = "unset"

\* C26: when two role selections overlap, then once both have completed the
\* location the principal was last navigated to is the one of the role
\* stored on the profile: '/post-job' with recruiter, '/jobs' with
\* candidate.  Stated on the then-callback that completes the last update
\* under way.
C26_LastNavigationMatchesRole ==
    [][\A i \in DOMAIN inflight :
          (ThenStep(i) /\ inflight' = <<>>) =>
             pathname' = (IF profileRole' = "recruiter" THEN "/post-job"
                          ELSE "/jobs")]_vars

\* The same with the role of the callback that ran last in place of the
\* stored role: the last navigation follows the last response.
LastNavigationMatchesLastResponse ==
    [][\A i \in DOMAIN inflight :
          (ThenStep(i) /\ inflight' = <<>>) =>
             /\ role' = inflight[i].role
             /\ pathname' = (IF role' = "recruiter" THEN "/post-job"
                             ELSE "/jobs")]_vars

\* Requests r and q asked to delete the same job and both were answered.
SameJobBothDone(r, q) ==
    /\ r # q
    /\ dreq[r].pc = "done" /\ dreq[q].pc = "done"
    /\ dreq[r].jobId = dreq[q].jobId

\* The database answered every call of request r.
DbAnswered(r) ==
    /\ dreq[r].fetchError \in {"none", "no rows"}
    /\ dreq[r].error = "none"

\* C27: two concurrent delete-job requests for one job are never both
\* answered 200.  With the database answering and the job found by at least
\* one of them, exactly one reports the deleted row with rowsAffected = 1,
\* the other is answered 404 or 500, and the row is gone.
C27_OneDeleteWins ==
    \A r, q \in Requests :
        SameJobBothDone(r, q) =>
            /\ ~(dreq[r].status = 200 /\ dreq[q].status = 200)
            /\ (DbAnswered(r) /\ DbAnswered(q)
                  /\ dreq[r].fetchError = "none") =>
                  /\ RowsWithId(dreq[r].jobId) = {}
                  /\ \E w \in {r, q} :
                        /\ dreq[w].status = 200
                        /\ dreq[w].rowsAffected = 1
                        /\ dreq[w].deletedJob.id = dreq[w].jobId
                        /\ \A l \in {r, q} \ {w} :
                              /\ dreq[l].status \in {404, 500}
                              /\ dreq[l].rowsAffected = 0

\* Both requests found the job; one deleted it, the other deleted no row
\* and was answered 500.
C27_Witness ==
    \E r, q \in Requests :
        /\ SameJobBothDone(r, q)
        /\ dreq[r].fetchError = "none" /\ dreq[q].fetchError = "none"
        /\ dreq[r].status = 200
        /\ dreq[q].status = 500
        /\ dreq[q].error = "none"

\* This step is the updateApplicationStatus call.
UpdateStep == ucall.pc = "idle" /\ ucall'.pc = "done"

\* The applications whose status this step changes.
StatusChanged ==
    { a \in applications :
        \E b \in applications' : b.id = a.id /\ b.status # a.status }

\* C28: updateApplicationStatus changes the status of one application, the
\* one whose control was used, and of no other, other candidates'
\* applications to the same job included; it returns null when the update
\* errors or matches no row.
C28_OnlyOneApplicationChanges ==
    [][UpdateStep =>
          /\ Cardinality(StatusChanged) <= 1
          /\ (ucall'.ret = "null") <=>
                (ucall'.error # "none"
                   \/ ~ \E a \in applications : a.job_id = ucall'.job_id)]_vars

\* What the call does: it sets the status of every application to the job,
\* leaves the applications to other jobs alone, and returns null exactly
\* when the update errors or matches no row.
UpdateReachesTheWholeJob ==
    [][UpdateStep =>
          /\ \A a \in applications :
                \E b \in applications' :
                    /\ b.id = a.id
                    /\ b.status = (IF ucall'.error = "none"
                                        /\ a.job_id = ucall'.job_id
                                   THEN ucall'.status ELSE a.status)
          /\ (ucall'.ret = "null") <=>
                (ucall'.error # "none"
                   \/ ~ \E a \in applications : a.job_id = ucall'.job_id)]_vars

====
